---- MODULE Spec2Model ----
(***************************************************************************)
(* A model of examples/cim/ac_gnn/agent/gnn_based_actor_critic.py:         *)
(*   - GNNBasedActorCriticConfig.__init__                                   *)
(*   - GNNBasedActorCritic.learn (advantage computation)                    *)
(*   - GNNBasedActorCritic.flatten_embedding and union (graph batching)     *)
(*   - GNNBasedActorCritic.save_model / load_model (checkpoint files)       *)
(* Tensors are functions from index tuples (1-based) to integers; the      *)
(* 0-based indices of the code are written i - 1.                          *)
(***************************************************************************)
EXTENDS Integers, Sequences, FiniteSets, TLC

VARIABLES
    \* ---- the agent: its configuration and the last call of learn
    config,         \* GNNBasedActorCriticConfig, as __init__ leaves it
    learn_in,       \* the arguments and Model outputs of the last learn call
    advantage0,     \* `advantage` after line 116
    advantage,      \* `advantage` after line 120
    learn_outcome,  \* "none", "ok" or the exception raised
    \* ---- flatten_embedding called directly
    embedding,      \* the tensor object passed as `embedding` (mutated in place)
    emb_in,         \* its shape and contents when the call started
    with_edge,      \* whether an `edge` tensor is passed
    fl,             \* the outcome of the call
    pcF,            \* "input" before the call, "done" after it
    \* ---- union called on a caller's state object
    state,          \* the caller's state dict: the numpy arrays vo and po
    state0,         \* the arrays and p2p_adj before the first call
    result,         \* what the last call of union returned
    prev_result,    \* what the call before it returned
    calls,          \* number of union calls made on `state`
    \* ---- the model's parameters and the checkpoint folder
    params,         \* self.model.state_dict(), as one abstract value
    folder_exists,  \* whether the checkpoint folder exists
    folder,         \* the folder: file name -> file content
    saved,          \* for each id passed to save_model, the parameters last saved
    last_load       \* the load_model call that just returned: idx, outcome,
                    \* parameters before it (NoLoad after any other operation)

flatVars == <<embedding, emb_in, with_edge, fl, pcF>>

learnVars == <<config, learn_in, advantage0, advantage, learn_outcome>>

unionVars == <<state, state0, result, prev_result, calls>>

storeVars == <<params, folder_exists, folder, saved, last_load>>

vars == <<learnVars, flatVars, unionVars, storeVars>>

\* ------------------------------------------------------------------ bounds
MaxSeq == 2
MaxBatch == 2
MaxCnt == 2
MaxCells == 6
MaxPorts == 3
MaxTd == 2
MaxVal == 1
MaxNodePairs == 2
MaxCalls == 2
MaxId == 10
MaxParam == 1

\* ------------------------------------------------------------ tensor basics
RECURSIVE Prod(_)
Prod(shape) == IF shape = <<>> THEN 1 ELSE Head(shape) * Prod(Tail(shape))

Indices(shape) ==
    IF Len(shape) = 3
    THEN (1..shape[1]) \X (1..shape[2]) \X (1..shape[3])
    ELSE (1..shape[1]) \X (1..shape[2]) \X (1..shape[3]) \X (1..shape[4])

\* torch.arange(n): the values 0 .. n-1
arange(n) == [i \in 1..n |-> i - 1]

\* f itself, tabulated: TLC then holds the function as a table instead of
\* re-evaluating its definition at every application.
Tab(f) == f @@ <<>>

Tab2(m) == Tab([r \in DOMAIN m |-> Tab(m[r])])

RECURSIVE SumTo(_, _)
SumTo(f, n) == IF n = 0 THEN 0 ELSE f[n] + SumTo(f, n - 1)

\* ------------------------------------------------------ flatten_embedding
\* The shape unpacking of lines 230-235.
Batch(shape) == shape[Len(shape) - 2]
XCnt(shape) == shape[Len(shape) - 1]
YCnt(shape) == shape[Len(shape)]

\* (batch_range * y_cnt).view(...): legal only when the element counts agree.
ViewOk(shape, batch_range) ==
    Len(batch_range) = Prod(SubSeq(shape, 1, Len(shape) - 2))

\* The element of addon that broadcasts onto index idx.
WrongAddon(shape, batch_range, idx) ==
    IF Len(shape) = 3
    THEN batch_range[idx[1]] * XCnt(shape)
    ELSE batch_range[(idx[1] - 1) * shape[2] + idx[2]] * XCnt(shape)

Addon(shape, batch_range, idx) ==
    IF Len(shape) = 3
    THEN batch_range[idx[1]] * YCnt(shape)
    ELSE batch_range[(idx[1] - 1) * shape[2] + idx[2]] * YCnt(shape)

\* Lines 237-239: snapshot the zero mask, add the offsets in place, reset the
\* masked entries to 0.  The result is the new content of `embedding`.
OffsetWithoutReset(shape, data, batch_range) ==
    [idx \in Indices(shape) |-> data[idx] + Addon(shape, batch_range, idx)]

OffsetInPlace(shape, data, batch_range) ==
    LET embedding_mask == [idx \in Indices(shape) |-> data[idx] = 0]
        added == [idx \in Indices(shape) |->
                    data[idx] + Addon(shape, batch_range, idx)]
    IN  [idx \in Indices(shape) |->
            IF embedding_mask[idx] THEN 0 ELSE added[idx]]

\* embedding.reshape(-1, y_cnt): row number of an index (row-major).
RowOf(shape, idx) ==
    IF Len(shape) = 3
    THEN (idx[1] - 1) * shape[2] + idx[2]
    ELSE ((idx[1] - 1) * shape[2] + (idx[2] - 1)) * shape[3] + idx[3]

NumRows(shape) == Prod(SubSeq(shape, 1, Len(shape) - 1))

IdxOfRow(shape, r, y) ==
    CHOOSE idx \in Indices(shape) : RowOf(shape, idx) = r /\ idx[Len(shape)] = y

Reshape2D(shape, data) ==
    [r \in 1..NumRows(shape) |->
        [y \in 1..YCnt(shape) |-> data[IdxOfRow(shape, r, y)]]]

\* col_mask = ret.sum(dim=0) != 0
ColMask(ret2d, ycnt) ==
    [y \in 1..ycnt |->
        SumTo([r \in 1..Len(ret2d) |-> ret2d[r][y]], Len(ret2d)) # 0]

\* The positions a boolean mask keeps, in order.
RECURSIVE KeptUpTo(_, _)
KeptUpTo(mask, n) ==
    IF n = 0 THEN <<>>
    ELSE IF mask[n] THEN Append(KeptUpTo(mask, n - 1), n)
         ELSE KeptUpTo(mask, n - 1)

Kept(mask) == KeptUpTo(mask, Len(mask))

\* ret[:, col_mask]
FilterCols(ret2d, mask) ==
    LET kept == Kept(mask)
    IN  [r \in 1..Len(ret2d) |-> [j \in 1..Len(kept) |-> ret2d[r][kept[j]]]]

\* Lines 243-247.  An edge feature vector is represented by the index of the
\* adjacency entry it belongs to.  edge.reshape(-1, *edge.shape[2:]) merges
\* the first two axes only, and col_mask is applied to axis 1 of the result.
EdgeOut(shape, mask) ==
    IF Len(shape) = 3
    THEN [outcome |-> "ok",
          edge |-> [r \in 1..NumRows(shape) |->
                      [j \in 1..Len(Kept(mask)) |->
                          IdxOfRow(shape, r, Kept(mask)[j])]]]
    ELSE IF XCnt(shape) # YCnt(shape)
         THEN [outcome |-> "IndexError", edge |-> <<>>]
         ELSE [outcome |-> "ok",
               edge |-> [r \in 1..(shape[1] * shape[2]) |->
                           [j \in 1..Len(Kept(mask)) |->
                               [y \in 1..YCnt(shape) |->
                                   IdxOfRow(shape,
                                            (r - 1) * shape[3] + Kept(mask)[j],
                                            y)]]]]

\* flatten_embedding(embedding, batch_range, edge): the outcome, the content
\* of `embedding` after the call, the returned adjacency and edge.
flatten_embedding(shape, data, batch_range, hasEdge) ==
    IF ~ViewOk(shape, batch_range)
    THEN [outcome |-> "RuntimeError", embedding |-> data,
          ret |-> <<>>, col_mask |-> <<>>, edge |-> <<>>]
    ELSE LET after == Tab(OffsetInPlace(shape, data, batch_range))
             flat == Tab2(Reshape2D(shape, after))
             col_mask == Tab(ColMask(flat, YCnt(shape)))
             ret == Tab2(FilterCols(flat, col_mask))
             e == EdgeOut(shape, col_mask)
         IN  IF hasEdge
             THEN [outcome |-> e.outcome, embedding |-> after,
                   ret |-> IF e.outcome = "ok" THEN ret ELSE <<>>,
                   col_mask |-> col_mask, edge |-> e.edge]
             ELSE [outcome |-> "ok", embedding |-> after,
                   ret |-> ret, col_mask |-> col_mask, edge |-> <<>>]

NoCall == [outcome |-> "none", embedding |-> <<>>, ret |-> <<>>,
           col_mask |-> <<>>, edge |-> <<>>]

\* ------------------------------------------------------------- numbers
\* reward_discount is a float in (0, 1]; the model takes the values 2^(-h)
\* and represents such a power of two by its exponent h ("halvings"), so
\* that (2^(-h)) ** n is exactly 2^(-h*n), represented by h * n.
RewardDiscounts == 0..1

Pow(h, n) == h * n

\* The literal exponent of line 41.
DiscountPower == 100

\* A number of learn is c + d * value_discount, kept as the pair (c, d);
\* when value_discount is 1 the d part is folded into c.
Lift(n) == [c |-> n, d |-> 0]

Plus(a, b) == [c |-> a.c + b.c, d |-> a.d + b.d]

Minus(a, b) == [c |-> a.c - b.c, d |-> a.d - b.d]

\* value_discount * n, for value_discount = 2^(-vd)
Discounted(vd, n) == IF vd = 0 \/ n = 0 THEN Lift(n) ELSE [c |-> 0, d |-> n]

\* ------------------------------------------- GNNBasedActorCriticConfig
__init__(p2p_adj, td_steps, reward_discount, actor_loss_coefficient, entropy_factor) ==
    [p2p_adj |-> p2p_adj,
     td_steps |-> td_steps,
     reward_discount |-> reward_discount,
     value_discount |-> Pow(reward_discount, DiscountPower),
     actor_loss_coefficient |-> actor_loss_coefficient,
     entropy_factor |-> entropy_factor]

\* ----------------------------------------------------------- broadcasting
\* A tensor of learn: [shape, at], of rank 1 (at[j]) or rank 2 (at[<<i, j>>]).
Pad2(shape) == IF Len(shape) = 1 THEN <<1, shape[1]>> ELSE shape

Compatible(s1, s2) ==
    \A k \in 1..2 : Pad2(s1)[k] = Pad2(s2)[k] \/ Pad2(s1)[k] = 1 \/ Pad2(s2)[k] = 1

Max(a, b) == IF a >= b THEN a ELSE b

BroadcastShape(s1, s2) ==
    <<Max(Pad2(s1)[1], Pad2(s2)[1]), Max(Pad2(s1)[2], Pad2(s2)[2])>>

\* The element of T that broadcasts onto position (i, j).
Elem(T, i, j) ==
    LET s == Pad2(T.shape)
        ii == IF s[1] = 1 THEN 1 ELSE i
        jj == IF s[2] = 1 THEN 1 ELSE j
    IN  IF Len(T.shape) = 1 THEN T.at[jj] ELSE T.at[<<ii, jj>>]

\* What an operation on shapes that do not broadcast leaves: nothing (it
\* raises RuntimeError).
ShapeMismatch == [shape |-> <<>>, at |-> <<>>]

Apply(op, a, b) == IF op = "+" THEN Plus(a, b) ELSE Minus(a, b)

\* A + B (op "+") and A - B (op "-") elementwise under broadcasting.
Binary(op, A, B) ==
    IF A = ShapeMismatch \/ B = ShapeMismatch THEN ShapeMismatch
    ELSE IF ~Compatible(A.shape, B.shape) THEN ShapeMismatch
    ELSE LET s == BroadcastShape(A.shape, B.shape)
         IN  [shape |-> s,
              at |-> [idx \in (1..s[1]) \X (1..s[2]) |->
                         Apply(op, Elem(A, idx[1], idx[2]), Elem(B, idx[1], idx[2]))]]

\* ------------------------------------------------------------------ learn
\* Line 116: advantage = returns + value_discount * values_.detach() - values
AdvantageOf(cfg, returns, values_, values) ==
    LET scaled == [shape |-> values_.shape,
                   at |-> [idx \in DOMAIN values_.at |->
                              Discounted(cfg.value_discount, values_.at[idx])]]
        lifted(T) == [shape |-> T.shape,
                      at |-> [idx \in DOMAIN T.at |-> Lift(T.at[idx])]]
    IN  Binary("-", Binary("+", lifted(returns), scaled), lifted(values))

\* Lines 118-120: advantage[:, p_idx] += entropy_factor * entropy_loss
EntropyToAllColumns(cfg, adv, entropy_loss, p_idx) ==
    IF cfg.entropy_factor # 0
    THEN [adv EXCEPT !.at =
            [idx \in DOMAIN adv.at |->
                Plus(adv.at[idx],
                     Lift(cfg.entropy_factor * entropy_loss.at[idx[1]]))]]
    ELSE adv

AddEntropy(cfg, adv, entropy_loss, p_idx) ==
    IF cfg.entropy_factor # 0
    THEN [adv EXCEPT !.at =
            [idx \in DOMAIN adv.at |->
                IF idx[2] = p_idx + 1
                THEN Plus(adv.at[idx],
                          Lift(cfg.entropy_factor * entropy_loss.at[idx[1]]))
                ELSE adv.at[idx]]]
    ELSE adv

\* Outputs of the external Model: one value per (transition, port).
ValueMatrices(B, Pc) ==
    {[shape |-> <<B, Pc>>,
      at |-> [idx \in (1..B) \X (1..Pc) |->
                 base + stride * ((idx[1] - 1) * Pc + idx[2])]] :
        base \in 0..1, stride \in 0..1}

EntropyVectors(B) ==
    {[shape |-> <<B>>, at |-> [b \in 1..B |-> e * b]] : e \in 0..1}

ReturnVectors(B) ==
    {[shape |-> <<B>>, at |-> r] : r \in [1..B -> 0..MaxVal]}

NoTensor == [shape |-> <<>>, at |-> <<>>]

NoLearn == [B |-> 0, Pc |-> 0, p_idx |-> 0, returns |-> NoTensor,
            values |-> NoTensor, values_ |-> NoTensor, entropy |-> NoTensor]

\* The static adjacency of the agents built here (a two-port ring).
RingAdj == [idx \in (1..2) \X (1..2) |-> IF idx[1] = idx[2] THEN 0 ELSE idx[2]]

\* ------------------------------------------- the parts a specification leaves idle
IdleLearn ==
    /\ config = __init__(RingAdj, 1, 0, 1, 0)
    /\ learn_in = NoLearn
    /\ advantage0 = NoTensor
    /\ advantage = NoTensor
    /\ learn_outcome = "none"

IdleFlatten ==
    /\ embedding = <<>>
    /\ emb_in = [shape |-> <<>>, data |-> <<>>]
    /\ with_edge = FALSE
    /\ fl = NoCall
    /\ pcF = "idle"

NoResult == [ve |-> <<>>, pe |-> <<>>, ppe |-> <<>>]

IdleUnion ==
    /\ state = <<>>
    /\ state0 = <<>>
    /\ result = NoResult
    /\ prev_result = NoResult
    /\ calls = 0

\* The abstract values of the model's parameters.
ParamValues == 0..MaxParam

NoLoad == [idx |-> 0, outcome |-> "none", before |-> 0]

IdleStore ==
    /\ params = 0
    /\ folder_exists = FALSE
    /\ folder = <<>>
    /\ saved = <<>>
    /\ last_load = NoLoad

\* ------------------------------------------------------- learn, as called
LearnInputs ==
    UNION {
      {[B |-> B, Pc |-> Pc, p_idx |-> p_idx, returns |-> returns,
        values |-> values, values_ |-> values_, entropy |-> entropy] :
          returns \in ReturnVectors(B), values \in ValueMatrices(B, Pc),
          values_ \in ValueMatrices(B, Pc), entropy \in EntropyVectors(B),
          p_idx \in 0..(Pc - 1)} :
      B \in 1..MaxBatch, Pc \in 1..MaxPorts}

\* An agent built with some configuration, about to run learn on some batch.
Init ==
    /\ \E td_steps \in 1..MaxTd, reward_discount \in RewardDiscounts,
          entropy_factor \in 0..1 :
         config = __init__(RingAdj, td_steps, reward_discount, 1, entropy_factor)
    /\ learn_in \in LearnInputs
    /\ advantage0 = NoTensor
    /\ advantage = NoTensor
    /\ learn_outcome = "none"
    /\ IdleFlatten
    /\ IdleUnion
    /\ IdleStore

\* learn(states, actions, returns, next_states, p_idx, v_idx): returns has one
\* entry per transition; values, values_ and the entropy are what the Model
\* and the Categorical distribution give for the batch.
Learn ==
    /\ learn_outcome = "none"
    /\ LET adv0 == AdvantageOf(config, learn_in.returns, learn_in.values_,
                               learn_in.values)
       IN  IF adv0 = ShapeMismatch
           THEN /\ learn_outcome' = "RuntimeError"
                /\ advantage0' = NoTensor
                /\ advantage' = NoTensor
                /\ params' = params
           ELSE /\ learn_outcome' = "ok"
                /\ advantage0' = adv0
                /\ advantage' = AddEntropy(config, adv0, learn_in.entropy,
                                           learn_in.p_idx)
                \* self.model.step(tot_loss), line 126
                /\ \E v \in ParamValues \ {params} : params' = v
    /\ UNCHANGED <<config, learn_in>>
    /\ UNCHANGED <<flatVars, unionVars, folder_exists, folder, saved, last_load>>

Next == Learn

Spec == Init /\ [][Next]_vars

\* ----------------------------------------------- flatten_embedding, direct
Shapes3 ==
    {s \in (1..MaxBatch) \X (1..MaxCnt) \X (1..MaxCnt) : Prod(s) <= MaxCells}

Shapes4 ==
    {s \in (1..MaxSeq) \X (1..MaxBatch) \X (1..MaxCnt) \X (1..MaxCnt) :
        Prod(s) <= MaxCells}

InitFlatten ==
    /\ \E shape \in Shapes3 \cup Shapes4 :
         \E data \in [Indices(shape) -> 0..YCnt(shape)] :
            /\ embedding = data
            /\ emb_in = [shape |-> shape, data |-> data]
    /\ with_edge \in BOOLEAN
    /\ fl = NoCall
    /\ pcF = "input"
    /\ IdleLearn
    /\ IdleUnion
    /\ IdleStore

\* A call flatten_embedding(embedding, arange(batch), edge), batch_range
\* built as union builds it (line 188).
FlattenCall ==
    /\ pcF = "input"
    /\ LET res == flatten_embedding(emb_in.shape, embedding,
                                    arange(Batch(emb_in.shape)), with_edge)
       IN  /\ fl' = res
           /\ embedding' = res.embedding
    /\ pcF' = "done"
    /\ UNCHANGED <<emb_in, with_edge>>
    /\ UNCHANGED <<learnVars, unionVars, storeVars>>

NextFlatten == FlattenCall

SpecFlatten == InitFlatten /\ [][NextFlatten]_vars

\* ------------------------------------------------------------------ union
\* ret.transpose(0, 1) of a 2-D array given as a sequence of rows.
Transpose(ret2d) ==
    [j \in 1..Len(ret2d[1]) |-> [r \in 1..Len(ret2d) |-> ret2d[r][j]]]

\* padj == 0, elementwise
IsZero(ret2d) ==
    [r \in 1..Len(ret2d) |-> [j \in 1..Len(ret2d[r]) |-> ret2d[r][j] = 0]]

\* One relation of the result, lines 190-196 (and 198-201, 205-210).
Relation(f) ==
    [adj |-> Transpose(f.ret), mask |-> IsZero(f.ret), edge |-> Transpose(f.edge)]

\* p2p.repeat(batch, 1, 1): a new tensor holding batch copies of p2p.
Repeat(p2p, batch, p_cnt) ==
    [idx \in (1..batch) \X (1..p_cnt) \X (1..p_cnt) |-> p2p[<<idx[2], idx[3]>>]]

\* torch.from_numpy(a).long().to(device) is a tensor on the memory of the
\* numpy array a exactly when a is int64 and the device is the CPU (then
\* neither .long() nor .to() copies); expand_dims gives a view either way.
SharesMemory(st) == st.dtype = "int64" /\ st.device = "cpu"

\* union(state): the returned dict (its adjacency parts) and the contents of
\* the caller's arrays after the call.
union(st, cfg) ==
    LET batch == st.vo.shape[1]
        p_cnt == st.po.shape[2]
        batch_range == arange(batch)
        fvo == flatten_embedding(st.vo.shape, st.vo.data, batch_range, TRUE)
        fpo == flatten_embedding(st.po.shape, st.po.data, batch_range, TRUE)
        p2p_adj == Repeat(cfg.p2p_adj, batch, p_cnt)
        fpp == flatten_embedding(<<batch, p_cnt, p_cnt>>, p2p_adj, batch_range, TRUE)
    IN  [ret |-> [ve |-> Relation(fvo), pe |-> Relation(fpo), ppe |-> Relation(fpp)],
         vo |-> IF SharesMemory(st) THEN fvo.embedding ELSE st.vo.data,
         po |-> IF SharesMemory(st) THEN fpo.embedding ELSE st.po.data]

\* Static adjacencies over p_cnt ports: no edges, or every other port.
P2PChoices(p_cnt) ==
    {[idx \in (1..p_cnt) \X (1..p_cnt) |-> 0],
     [idx \in (1..p_cnt) \X (1..p_cnt) |-> IF idx[1] = idx[2] THEN 0 ELSE idx[2]]}

UnionShapes ==
    {s \in (1..MaxBatch) \X (1..MaxCnt) \X (1..MaxCnt) : s[2] * s[3] <= MaxNodePairs}

\* Where the state's index arrays live: their numpy dtype and the agent's device.
Placements ==
    {[dtype |-> "int64", device |-> "cpu"],
     [dtype |-> "int32", device |-> "cpu"],
     [dtype |-> "int64", device |-> "cuda"]}

\* A caller's state object for batch x v_cnt vessels x p_cnt ports, and an
\* agent configured with a static adjacency over the same ports.
InitUnion ==
    /\ \E s \in UnionShapes :
         LET batch == s[1]
             v_cnt == s[2]
             p_cnt == s[3]
         IN  \E vo \in [Indices(<<batch, v_cnt, p_cnt>>) -> 0..p_cnt],
                po \in [Indices(<<batch, p_cnt, v_cnt>>) -> 0..v_cnt],
                p2p \in P2PChoices(p_cnt),
                pl \in Placements,
                single \in {TRUE, FALSE} :
               /\ single => batch = 1
               /\ state = [single |-> single, dtype |-> pl.dtype, device |-> pl.device,
                           vo |-> [shape |-> <<batch, v_cnt, p_cnt>>, data |-> vo],
                           po |-> [shape |-> <<batch, p_cnt, v_cnt>>, data |-> po]]
               /\ state0 = [vo |-> vo, po |-> po, p2p_adj |-> p2p]
               /\ config = __init__(p2p, 1, 0, 1, 0)
    /\ learn_in = NoLearn
    /\ advantage0 = NoTensor
    /\ advantage = NoTensor
    /\ learn_outcome = "none"
    /\ result = NoResult
    /\ prev_result = NoResult
    /\ calls = 0
    /\ IdleFlatten
    /\ IdleStore

\* self.union(state), as choose_action and _preprocess call it.
Union ==
    /\ calls < MaxCalls
    /\ LET u == union(state, config)
       IN  /\ result' = u.ret
           /\ state' = [state EXCEPT !.vo.data = u.vo, !.po.data = u.po]
    /\ prev_result' = result
    /\ calls' = calls + 1
    /\ UNCHANGED <<state0, learnVars, flatVars, storeVars>>

NextUnion == Union

SpecUnion == InitUnion /\ [][NextUnion]_vars

\* -------------------------------------------------- save_model, load_model
\* A file name is the sequence of its characters.
DigitChars == <<"0", "1", "2", "3", "4", "5", "6", "7", "8", "9">>

RECURSIVE Digits(_)
Digits(n) ==
    IF n < 10 THEN <<DigitChars[n + 1]>>
    ELSE Digits(n \div 10) \o <<DigitChars[(n % 10) + 1]>>

\* f"{id}" for an integer id
Str(n) == IF n < 0 THEN <<"-">> \o Digits(-n) ELSE Digits(n)

\* Line 136 (and 151): f"{id}_ac.pkl"
FileName(id) == Str(id) \o <<"_", "a", "c", ".", "p", "k", "l">>

\* s.split(sep)[0]
RECURSIVE Before(_, _)
Before(sep, s) ==
    IF s = <<>> \/ Head(s) = sep THEN <<>>
    ELSE <<Head(s)>> \o Before(sep, Tail(s))

IsDigit(ch) == \E d \in 1..10 : DigitChars[d] = ch

DigitVal(ch) == (CHOOSE d \in 1..10 : DigitChars[d] = ch) - 1

RECURSIVE DigitsVal(_)
DigitsVal(cs) ==
    IF cs = <<>> THEN 0
    ELSE DigitsVal(SubSeq(cs, 1, Len(cs) - 1)) * 10 + DigitVal(cs[Len(cs)])

\* Python's int(s) on a string of these characters: an optional sign and at
\* least one digit, anything else raises ValueError.
int(cs) ==
    LET signed == cs # <<>> /\ cs[1] \in {"-", "+"}
        body == IF signed THEN Tail(cs) ELSE cs
    IN  IF body = <<>> \/ \E i \in 1..Len(body) : ~IsDigit(body[i])
        THEN [ok |-> FALSE, val |-> 0]
        ELSE [ok |-> TRUE,
              val |-> IF signed /\ cs[1] = "-" THEN 0 - DigitsVal(body)
                      ELSE DigitsVal(body)]

\* Lines 130-131
FirstCharAsIdx(fp_str) == int(<<fp_str[1]>>)

_get_save_idx(fp_str) == int(Before("_", Before(".", fp_str)))

\* "ac" in f
ContainsAc(f) == \E i \in 1..(Len(f) - 1) : f[i] = "a" /\ f[i + 1] = "c"

\* Lines 146-149: what fps[-1] can be after fps.sort(key=self._get_save_idx).
\* os.listdir gives the names in arbitrary order and the sort is stable, so
\* among names with the same (largest) key any one may come last.
LastCandidates(fps) ==
    {f \in fps : \A g \in fps : _get_save_idx(g).val <= _get_save_idx(f).val}

\* load_model(folder_pth, idx), lines 145-153: how the call ends and which
\* file it opens (any one of `opens`).
load_model(exists, dir, idx) ==
    IF idx = -1
    THEN LET fps == {f \in DOMAIN dir : ContainsAc(f)}
         IN  IF ~exists THEN [outcome |-> "FileNotFoundError", opens |-> {}]
             ELSE IF \E f \in fps : ~_get_save_idx(f).ok
                  THEN [outcome |-> "ValueError", opens |-> {}]
             ELSE IF fps = {} THEN [outcome |-> "IndexError", opens |-> {}]
             ELSE [outcome |-> "ok", opens |-> LastCandidates(fps)]
    ELSE IF ~exists \/ FileName(idx) \notin DOMAIN dir
         THEN [outcome |-> "FileNotFoundError", opens |-> {}]
         ELSE [outcome |-> "ok", opens |-> {FileName(idx)}]

SaveIds == {-1, 2} \cup (9..MaxId)

\* Files that are in the folder before the agent saves anything.
LogTxt == <<"l", "o", "g", ".", "t", "x", "t">>

AcBak == <<"a", "c", ".", "b", "a", "k">>

PutFile(dir, name, content) ==
    [f \in DOMAIN dir \cup {name} |-> IF f = name THEN content ELSE dir[f]]

InitStore ==
    /\ params \in ParamValues
    /\ \/ folder_exists = FALSE /\ folder = <<>>
       \/ folder_exists = TRUE /\ folder = <<>>
       \/ folder_exists = TRUE /\ folder = PutFile(<<>>, LogTxt, "text")
       \/ folder_exists = TRUE /\ folder = PutFile(<<>>, AcBak, "text")
    /\ saved = <<>>
    /\ last_load = NoLoad
    /\ IdleLearn
    /\ IdleFlatten
    /\ IdleUnion

\* self.model.step(tot_loss) of learn (line 126): the parameters change.
ModelStep ==
    /\ \E v \in ParamValues \ {params} : params' = v
    /\ last_load' = NoLoad
    /\ UNCHANGED <<folder_exists, folder, saved>>
    /\ UNCHANGED <<learnVars, flatVars, unionVars>>

\* save_model(pth, id), lines 133-137
save_model ==
    /\ \E id \in SaveIds :
         /\ folder' = PutFile(folder, FileName(id), params)
         /\ saved' = PutFile(saved, id, params)
    /\ folder_exists' = TRUE
    /\ last_load' = NoLoad
    /\ UNCHANGED params
    /\ UNCHANGED <<learnVars, flatVars, unionVars>>

\* load_model(folder_pth, idx), lines 144-155: the weights of the opened file
\* are copied into the model (every key of a file this model saved is a key
\* of the model); a call that raises leaves the parameters alone.
LoadModel ==
    /\ \E idx \in SaveIds :
         LET r == load_model(folder_exists, folder, idx)
         IN  /\ last_load' = [idx |-> idx, outcome |-> r.outcome, before |-> params]
             /\ IF r.outcome = "ok"
                THEN \E ac_pth \in r.opens : params' = folder[ac_pth]
                ELSE params' = params
    /\ UNCHANGED <<folder_exists, folder, saved>>
    /\ UNCHANGED <<learnVars, flatVars, unionVars>>

NextStore == ModelStep \/ save_model \/ LoadModel

SpecStore == InitStore /\ [][NextStore]_vars

\* ====================================================================
\* Claims
\* ====================================================================

\* The advantage entry the specification prescribes for transition b, port p.
ExpectedAdvantage(b, p) ==
    Minus(Plus(Lift(learn_in.returns.at[b]),
               Discounted(config.value_discount, learn_in.values_.at[<<b, p>>])),
          Lift(learn_in.values.at[<<b, p>>]))

\* C1: once learn has run on a batch of B transitions over Pc ports with one
\* return per transition (not all equal), the call has succeeded and the advantage before
\* the entropy adjustment is a (B, Pc) tensor whose entry (b, p) is
\* returns[b] + value_discount * values_next[b][p] - values[b][p].
C1_AdvantageSharesOwnReturn ==
    (/\ learn_outcome # "none"
     /\ \E b1, b2 \in 1..learn_in.B :
           learn_in.returns.at[b1] # learn_in.returns.at[b2]) =>
        /\ learn_outcome = "ok"
        /\ advantage0.shape = <<learn_in.B, learn_in.Pc>>
        /\ \A b \in 1..learn_in.B, p \in 1..learn_in.Pc :
              advantage0.at[<<b, p>>] = ExpectedAdvantage(b, p)

\* C6: the derived value_discount of every configuration is reward_discount
\* to the power td_steps.
C6_ValueDiscountIsPowerOfTdSteps ==
    config.value_discount = Pow(config.reward_discount, config.td_steps)

\* C10: when learn succeeds, the entropy adjustment adds
\* entropy_factor * entropy[b] to the advantage at (b, p_idx) and leaves every
\* other column as it was; with entropy_factor = 0 nothing changes at all.
C10_EntropyOnlyAtActingPort ==
    learn_outcome = "ok" =>
        /\ advantage.shape = advantage0.shape
        /\ \A idx \in DOMAIN advantage0.at :
              advantage.at[idx] =
                 IF idx[2] = learn_in.p_idx + 1
                 THEN Plus(advantage0.at[idx],
                           Lift(config.entropy_factor * learn_in.entropy.at[idx[1]]))
                 ELSE advantage0.at[idx]
        /\ (config.entropy_factor = 0 => advantage = advantage0)

\* A successful learn with a nonzero entropy bonus on a batch with several
\* ports, where the adjustment changed the acting port's column.
C10_Witness ==
    /\ learn_outcome = "ok"
    /\ config.entropy_factor # 0
    /\ learn_in.Pc >= 2
    /\ learn_in.B >= 2
    /\ \A b \in 1..learn_in.B : learn_in.entropy.at[b] # 0
    /\ advantage # advantage0

\* The column of the returned array that holds input column y (kept).
ColPos(mask, y) == Len(KeptUpTo(mask, y))

Rank3Done == pcF = "done" /\ Len(emb_in.shape) = 3

Rank4Done == pcF = "done" /\ Len(emb_in.shape) = 4

\* C2: after flatten_embedding on a 3-D array, every entry that was 0 before
\* the call is 0 in the returned array, in every column that is kept, for
\* every batch index.
C2_ZeroStaysZero ==
    Rank3Done =>
        /\ fl.outcome = "ok"
        /\ \A idx \in Indices(emb_in.shape) :
              (emb_in.data[idx] = 0 /\ fl.col_mask[idx[3]]) =>
                  fl.ret[RowOf(emb_in.shape, idx)][ColPos(fl.col_mask, idx[3])] = 0

\* A finished call where a zero of a batch element with batch index > 0 sits
\* in a kept column.
C2_Witness ==
    /\ Rank3Done
    /\ fl.outcome = "ok"
    /\ \E idx \in Indices(emb_in.shape) :
          idx[1] > 1 /\ emb_in.data[idx] = 0 /\ fl.col_mask[idx[3]]

\* The global index the returned array holds for input position idx.
Returned(idx) ==
    fl.ret[RowOf(emb_in.shape, idx)][ColPos(fl.col_mask, idx[Len(emb_in.shape)])]

\* C3: after flatten_embedding on a 3-D array with entries in 0..y_count, a
\* nonzero entry k of batch element b (0-based) is returned as b*y_count + k
\* (its column is kept); so it is not 0, and nonzero entries of different
\* batch elements never get the same global index.
C3_GlobalIndexInjective ==
    Rank3Done =>
        /\ \A idx \in Indices(emb_in.shape) :
              emb_in.data[idx] # 0 =>
                  /\ fl.col_mask[idx[3]]
                  /\ Returned(idx) = (idx[1] - 1) * YCnt(emb_in.shape) + emb_in.data[idx]
                  /\ Returned(idx) # 0
        /\ \A i1, i2 \in Indices(emb_in.shape) :
              (emb_in.data[i1] # 0 /\ emb_in.data[i2] # 0 /\ i1[1] # i2[1]) =>
                  Returned(i1) # Returned(i2)

\* A finished call on a batch of two with nonzero entries in both batch
\* elements, whose local indices differ.
C3_Witness ==
    /\ Rank3Done
    /\ \E i1, i2 \in Indices(emb_in.shape) :
          /\ i1[1] = 1 /\ i2[1] = 2
          /\ emb_in.data[i1] # 0 /\ emb_in.data[i2] # 0
          /\ emb_in.data[i1] # emb_in.data[i2]

\* The 2-D array m (a sequence of rows) has at least one entry, and every
\* entry is v.
NonEmptyAll(m, v) ==
    /\ Len(m) >= 1
    /\ \A r \in 1..Len(m) :
          /\ Len(m[r]) >= 1
          /\ \A j \in 1..Len(m[r]) : m[r][j] = v

\* C5: when a relation of the state has no edge anywhere in the batch (every
\* entry of its adjacency is 0), the first union still returns non-empty
\* tensors for it: the adjacency has at least one column and only zeros, and
\* the mask has only True.
C5_NoEdgesStillNonEmpty ==
    calls = 1 =>
        /\ (\A idx \in DOMAIN state0.vo : state0.vo[idx] = 0) =>
              /\ NonEmptyAll(result.ve.adj, 0)
              /\ NonEmptyAll(result.ve.mask, TRUE)
        /\ (\A idx \in DOMAIN state0.po : state0.po[idx] = 0) =>
              /\ NonEmptyAll(result.pe.adj, 0)
              /\ NonEmptyAll(result.pe.mask, TRUE)
        /\ (\A idx \in DOMAIN state0.p2p_adj : state0.p2p_adj[idx] = 0) =>
              /\ NonEmptyAll(result.ppe.adj, 0)
              /\ NonEmptyAll(result.ppe.mask, TRUE)

\* The adjacency and mask of each relation of a union result.
AdjAndMask(res) ==
    <<res.ve.adj, res.ve.mask, res.pe.adj, res.pe.mask, res.ppe.adj, res.ppe.mask>>

\* C4: union is a pure function of the state and Config.p2p_adj: after any
\* number of calls the caller's arrays vo and po and the configured p2p_adj
\* are what they were before the first call, and a second call on the same
\* state object returns the adjacencies and masks the first one returned.
C4_UnionIsPure ==
    calls >= 1 =>
        /\ state.vo.data = state0.vo
        /\ state.po.data = state0.po
        /\ config.p2p_adj = state0.p2p_adj
        /\ (calls >= 2 => AdjAndMask(result) = AdjAndMask(prev_result))

\* Every file of the folder is a checkpoint written by save_model: the
\* folder was empty (or absent) before the first save.
OnlyCheckpoints ==
    \A f \in DOMAIN folder : \E id \in DOMAIN saved : f = FileName(id)

MaxOf(S) == CHOOSE m \in S : \A x \in S : x <= m

\* C7: in a folder that holds only what save_model wrote, load_model with
\* idx = -1 succeeds and leaves the parameters last saved under the
\* numerically largest id, and load_model with the idx of a saved id (other
\* than the value -1, which selects the latest) leaves the parameters last
\* saved under that id.
C7_LoadRestoresSaved ==
    (last_load.outcome # "none" /\ OnlyCheckpoints /\ DOMAIN saved # {}) =>
        /\ last_load.idx = -1 =>
              /\ last_load.outcome = "ok"
              /\ params = saved[MaxOf(DOMAIN saved)]
        /\ (last_load.idx # -1 /\ last_load.idx \in DOMAIN saved) =>
              /\ last_load.outcome = "ok"
              /\ params = saved[last_load.idx]

\* load_model(idx=-1) has just restored what was saved under id 10, from a
\* folder that also holds different parameters saved under id 9.
C7_Witness ==
    /\ last_load.idx = -1
    /\ last_load.outcome = "ok"
    /\ OnlyCheckpoints
    /\ {9, 10} \subseteq DOMAIN saved
    /\ MaxOf(DOMAIN saved) = 10
    /\ saved[9] # saved[10]
    /\ params = saved[10]
    /\ last_load.before # params

\* A name of the form "<integer>_ac.pkl".
IsCheckpointName(f) == _get_save_idx(f).ok /\ f = FileName(_get_save_idx(f).val)

\* C8: load_model(idx=-1) on an existing folder that is empty or holds no
\* checkpoint file ends in a "no checkpoint found" error of its own, not in
\* an index-out-of-range error, and leaves the parameters unchanged.
C8_NoCheckpointFoundSignal ==
    (/\ last_load.outcome # "none"
     /\ last_load.idx = -1
     /\ folder_exists
     /\ \A f \in DOMAIN folder : ~IsCheckpointName(f)) =>
        /\ last_load.outcome = "NoCheckpointFound"
        /\ params = last_load.before

\* C9: flatten_embedding on a 4-D array (seq_len, batch, x_count, y_count),
\* called without edge features, succeeds for every seq_len >= 1, adds
\* batch_index * y_count to each nonzero entry at every sequence position and
\* returns seq_len * batch * x_count rows.
C9_FourDimAnySeqLen ==
    (Rank4Done /\ ~with_edge) =>
        /\ fl.outcome = "ok"
        /\ Len(fl.ret) = emb_in.shape[1] * emb_in.shape[2] * emb_in.shape[3]
        /\ \A idx \in Indices(emb_in.shape) :
              emb_in.data[idx] # 0 =>
                  Returned(idx) = (idx[2] - 1) * YCnt(emb_in.shape) + emb_in.data[idx]

====
